---- MODULE Spec2Model ----
(***************************************************************************)
(* Model of src/main.py: the task-deployment service.  A request is        *)
(* accepted by receive_task, which schedules process_and_deploy_task; the  *)
(* run generates a document, publishes it (round 1) or revises the         *)
(* existing one (any other round), polls the pages URL for the nonce       *)
(* marker and posts a callback with retries.                               *)
(*                                                                         *)
(* Text is a sequence of tokens (strings).  The tokens that the code       *)
(* inspects are kept apart: the head close tag, the nonce marker tag, the  *)
(* line break, the fenced-code delimiter, the error prefix.                *)
(***************************************************************************)
EXTENDS Integers, Sequences, FiniteSets, TLC

VARIABLES env, github, run

vars == <<env, github, run>>

-----------------------------------------------------------------------------
(* Bounds of the model *)

MaxRound == 2

MaxAttachments == 2

(* Program constants *)

DEFAULT_POLLING == 15

PollTimeout == 240

ProbeTimeout == 10

max_retries == 5

NoSha == 0

-----------------------------------------------------------------------------
(* Values *)

None == "None"

Runs == {"r1", "r2"}

SoloRuns == {"r1"}

Tasks == {"t1", "t2"}

SoloTasks == {"t1"}

Nonces == {"n1", "n2"}

Secrets == {"s1", "s2"}

Rounds == 0..MaxRound

NL == "\n"

Indent == "    "

Fence == "[fence]"

HeadClose == "</head>"

ErrorPrefix == "<h1>Error"

\* f'<meta name="deployment-nonce" content="{nonce}">'
NonceMetaTag(nonce) == "<meta name=deployment-nonce content=" \o nonce \o ">"

MIT_LICENSE == <<"MIT">>

-----------------------------------------------------------------------------
(* str operations, on token sequences *)

IsSpace(tok) == tok \in {NL, Indent}

RECURSIVE LStrip(_)
LStrip(s) == IF s # <<>> /\ IsSpace(Head(s)) THEN LStrip(Tail(s)) ELSE s

RECURSIVE RStrip(_)
RStrip(s) ==
    IF s # <<>> /\ IsSpace(s[Len(s)]) THEN RStrip(SubSeq(s, 1, Len(s) - 1)) ELSE s

\* str.strip()
Strip(s) == RStrip(LStrip(s))

\* str.startswith(tok)
StartsWith(s, tok) == s # <<>> /\ s[1] = tok

\* str.endswith(tok)
EndsWith(s, tok) == s # <<>> /\ s[Len(s)] = tok

\* tok in s
Contains(s, tok) == \E i \in 1..Len(s) : s[i] = tok

\* s.count(tok)
Count(s, tok) == Cardinality({i \in 1..Len(s) : s[i] = tok})

\* s.find(tok) + 1: the first position of tok, 0 if there is none
Find(s, tok) ==
    IF Contains(s, tok)
    THEN CHOOSE i \in 1..Len(s) : s[i] = tok /\ \A j \in 1..(i - 1) : s[j] # tok
    ELSE 0

\* s.rfind(tok) + 1
RFind(s, tok) ==
    IF Contains(s, tok)
    THEN CHOOSE i \in 1..Len(s) : s[i] = tok /\ \A j \in (i + 1)..Len(s) : s[j] # tok
    ELSE 0

\* s.replace(old, new, 1): only the first occurrence of old is replaced
ReplaceFirst(s, old, new) ==
    LET i == Find(s, old)
    IN  IF i = 0 THEN s
        ELSE SubSeq(s, 1, i - 1) \o new \o SubSeq(s, i + 1, Len(s))

\* html.replace("</head>", f"    {nonce_meta_tag}\n</head>", 1)
InjectNonce(code, nonce) ==
    ReplaceFirst(code, HeadClose, <<Indent, NonceMetaTag(nonce), NL, HeadClose>>)

-----------------------------------------------------------------------------
(* generate_code_with_llm *)

\* The sentinel error artifacts (lines 40 and 95)
NoTokenArtifact == <<ErrorPrefix, ": AIPIPE_TOKEN is not configured.</h1>">>

GenerationErrorArtifact == <<ErrorPrefix, ": Could not generate code.</h1>">>

\* Texts the generation service can deliver (response_data[...]["text"])
LLMTexts ==
    { <<"<head>", HeadClose, "<body>">>,
      <<Fence, "html", NL, "<head>", HeadClose, "<body>", NL, Fence, NL>>,
      <<"<body>">>,
      <<"<head>", Indent, NonceMetaTag("n1"), NL, HeadClose, "<body>">>,
      <<"<head>", HeadClose, "<body>", HeadClose>>,
      <<NL, Indent>>,
      <<ErrorPrefix, "<body>">>,
      <<Fence>>,
      <<"<head>", HeadClose, NL, "<body>", Fence>> }

\* No text was delivered
NoReply == [ok |-> FALSE, text |-> <<>>]

\* What the generator was delivered, given whether it called the service
Delivered(hasToken, reply) == IF hasToken THEN reply ELSE NoReply

\* What requests.post + raise_for_status + json + indexing yields: a text, or
\* an exception (transport failure, error status, unexpected shape)
LLMReplies ==
    {NoReply} \cup {[ok |-> TRUE, text |-> t] : t \in LLMTexts}

\* code.split('\n', 1)[1]: raises IndexError when code has no line break
AfterFirstLine(code) ==
    LET i == Find(code, NL)
    IN  [raised |-> i = 0,
         code   |-> IF i = 0 THEN <<>> ELSE SubSeq(code, i + 1, Len(code))]

\* '\n'.join(code.split('\n')[:-1]): all lines but the last
WithoutLastLine(code) ==
    LET i == RFind(code, NL)
    IN  IF i = 0 THEN <<>> ELSE SubSeq(code, 1, i - 1)

\* Lines 82-88: strip, then the cleanup of the fence lines
CleanFences(text) ==
    LET code  == Strip(text)
        first == IF StartsWith(code, Fence)
                 THEN AfterFirstLine(code)
                 ELSE [raised |-> FALSE, code |-> code]
    IN  IF first.raised THEN first
        ELSE [raised |-> FALSE,
              code   |-> IF EndsWith(first.code, Fence)
                         THEN WithoutLastLine(first.code)
                         ELSE first.code]

\* generate_code_with_llm: the returned str, given whether AIPIPE_TOKEN is set
\* and what the service answered
generate_code_with_llm(hasToken, reply) ==
    IF ~hasToken THEN NoTokenArtifact
    ELSE IF ~reply.ok THEN GenerationErrorArtifact
    ELSE LET c == CleanFences(reply.text)
         IN  IF c.raised THEN GenerationErrorArtifact ELSE c.code

\* A check that looks for empty markup only
GenerationFailed_EmptyOnly(code) == code = <<>>

\* not html_code or html_code.startswith("<h1>Error")
GenerationFailed(code) == code = <<>> \/ StartsWith(code, ErrorPrefix)

-----------------------------------------------------------------------------
(* Requests *)

\* Attachments: name and data URI; "data:ok" decodes, "data:bad" makes
\* split or b64decode raise, None is a missing key
Attachment(name, url) == [name |-> name, url |-> url]

AttachmentKinds ==
    { Attachment("a.png", "data:ok"),
      Attachment("b.png", "data:ok"),
      Attachment("c.png", "data:bad"),
      Attachment(None, "data:ok") }

AttachmentLists ==
    UNION {[1..n -> AttachmentKinds] : n \in 0..MaxAttachments}

TaskRequest(secret, task, round, nonce, attachments) ==
    [secret |-> secret, task |-> task, round |-> round, nonce |-> nonce,
     attachments |-> attachments]

NoRequest == TaskRequest(None, None, 0, None, <<>>)

\* The request once its attachments have been read for the last time: the
\* run reads them in the generator's prompt and in the publisher's loop only
Consumed(req) == [req EXCEPT !.attachments = <<>>]

SoloRequests ==
    { TaskRequest(s, t, k, n, a) :
        s \in Secrets, t \in SoloTasks, k \in Rounds, n \in Nonces,
        a \in AttachmentLists }

-----------------------------------------------------------------------------
(* The hosting platform *)

NoRepo == [exists |-> FALSE, files |-> <<>>, commits |-> <<>>, pages |-> FALSE,
           served |-> {}]

\* The document a round-1 run with nonce n1 published
PublishedDoc == InjectNonce(<<"<head>", HeadClose, "<body>">>, "n1")

InitialReadme == <<"README", "initial">>

ExistingRepo(files) ==
    [exists |-> TRUE, files |-> files,
     commits |-> <<>>, pages |-> TRUE,
     served |-> IF "index.html" \in DOMAIN files THEN {files["index.html"]} ELSE {}]

InitialRepos ==
    { NoRepo,
      ExistingRepo(("index.html" :> PublishedDoc) @@ ("README.md" :> InitialReadme)),
      ExistingRepo("README.md" :> InitialReadme),
      ExistingRepo("index.html" :> PublishedDoc) }

\* repo.html_url
HtmlUrl(task) == "https://github.com/user/" \o task

\* f"https://{github_username}.github.io/{repo_name}/"
PagesUrl(task) == "https://user.github.io/" \o task \o "/"

Absent == [url |-> None, sha |-> NoSha]

CallbackPayload(task, round, nonce, repo_url, commit_sha, pages_url) ==
    [task |-> task, round |-> round, nonce |-> nonce, repo_url |-> repo_url,
     commit_sha |-> commit_sha, pages_url |-> pages_url]

NoPayload == CallbackPayload(None, 0, None, None, NoSha, None)

\* The answers of the endpoint: none yet, the HTTPException of line 392, the
\* body of line 398
NoResponse == [status |-> 0, body |-> None]

Forbidden == [status |-> 403, body |-> "Invalid secret provided."]

Accepted ==
    [status |-> 200,
     body |-> "Request received. Processing will start in the background."]

-----------------------------------------------------------------------------
(* State *)

NoRun ==
    [pc |-> "idle", req |-> NoRequest, response |-> NoResponse,
     html |-> <<>>, genCalled |-> FALSE, delivered |-> NoReply,
     createCalled |-> FALSE, updateCalled |-> FALSE,
     repoSeen |-> None, repoAnswered |-> FALSE, errorKind |-> None,
     indexSha |-> <<>>, fetchedAt |-> 0, readmeSha |-> <<>>, commitInfo |-> NoSha, attIdx |-> 0,
     result |-> Absent,
     dropped |-> {}, attTotal |-> 0, attDropped |-> 0, hosting |-> None,
     interval |-> 0, elapsed |-> 0, probed |-> FALSE, sawMarker |-> FALSE,
     polled |-> FALSE, is_live |-> FALSE,
     attempt |-> 0, outcomes |-> <<>>, waits |-> <<>>,
     notified |-> FALSE, acked |-> FALSE, payload |-> NoPayload]

\* Line 14: the configuration read when the module is loaded
Environments == [MY_SECRET : {"s1", None}]

\* os.getenv("AIPIPE_TOKEN") at line 37: set or not
TokenSettings == BOOLEAN

\* os.getenv("POLLING_TIME") at line 214: unset, or the text set
PollingTimes == {None, "abc", "15", "0", "-5"}

Init ==
    /\ env \in Environments
    /\ github \in {g \in [Tasks -> InitialRepos] :
                     \A t \in Tasks \ SoloTasks : g[t] = NoRepo}
    /\ run = [r \in Runs |-> NoRun]

-----------------------------------------------------------------------------
(* receive_task *)

\* An endpoint that accepts every request
receive_task_NoSecretCheck(r, request) ==
    /\ run[r].pc = "idle"
    /\ run' = [run EXCEPT ![r].pc = "scheduled", ![r].req = request,
                          ![r].response = Accepted]
    /\ UNCHANGED <<env, github>>

\* Lines 389-398: the request is kept in req; a run is scheduled by pc =
\* "scheduled", and starts in a later step, after the answer
receive_task(r, request) ==
    /\ run[r].pc = "idle"
    /\ IF request.secret # env.MY_SECRET
       THEN run' = [run EXCEPT ![r].pc = "rejected", ![r].req = request,
                               ![r].response = Forbidden]
       ELSE run' = [run EXCEPT ![r].pc = "scheduled", ![r].req = request,
                               ![r].response = Accepted]
    /\ UNCHANGED <<env, github>>

-----------------------------------------------------------------------------
(* process_and_deploy_task: dispatch and the round-1 generation *)

\* A dispatch on the repository's existence instead of the round
process_and_deploy_task_ByExistence(r) ==
    /\ run[r].pc = "scheduled"
    /\ IF ~github[run[r].req.task].exists
       THEN run' = [run EXCEPT ![r].pc = "generate"]
       ELSE run' = [run EXCEPT ![r].pc = "get_repo", ![r].updateCalled = TRUE]
    /\ UNCHANGED <<env, github>>

\* Lines 341-347 and 361-363
process_and_deploy_task(r) ==
    /\ run[r].pc = "scheduled"
    /\ IF run[r].req.round = 1
       THEN run' = [run EXCEPT ![r].pc = "generate"]
       ELSE run' = [run EXCEPT ![r].pc = "get_repo", ![r].updateCalled = TRUE]
    /\ UNCHANGED <<env, github>>

\* Lines 348-359, up to the call of create_and_push_to_github
GenerateRound1(r) ==
    /\ run[r].pc = "generate"
    /\ \E hasToken \in TokenSettings, reply \in LLMReplies :
         LET html_code == generate_code_with_llm(hasToken, reply)
         IN  IF GenerationFailed(html_code)
             THEN run' = [run EXCEPT ![r].pc = "aborted", ![r].genCalled = TRUE,
                                     ![r].delivered = Delivered(hasToken, reply),
                                     ![r].html = html_code,
                                     ![r].req = Consumed(run[r].req)]
             ELSE run' = [run EXCEPT ![r].pc = "create_repo",
                                     ![r].genCalled = TRUE,
                                     ![r].delivered = Delivered(hasToken, reply),
                                     ![r].html = InjectNonce(html_code, run[r].req.nonce),
                                     ![r].createCalled = TRUE]
    /\ UNCHANGED <<env, github>>

-----------------------------------------------------------------------------
(* The hosting platform's operations *)

\* A commit of one file by run r: the file's content, the commit log, the
\* versions of the document the pages site may serve
Commit(repo, path, content, r) ==
    [repo EXCEPT !.files = (path :> content) @@ repo.files,
                 !.commits = Append(repo.commits, [path |-> path, by |-> r]),
                 !.served = IF path = "index.html" THEN repo.served \cup {content}
                            ELSE repo.served]

\* The commit's sha: the commit's position in the repository's log
CommitSha(repo) == Len(repo.commits)

\* repo.create_file succeeds when the platform answers and the path is new
CanCreateFile(repo, path, apiOk) == apiOk /\ repo.exists /\ path \notin DOMAIN repo.files

\* An update that is accepted whatever sha is supplied
CanUpdateFile_AnySha(repo, path, sha, apiOk) ==
    apiOk /\ repo.exists /\ path \in DOMAIN repo.files

\* repo.update_file succeeds when the platform answers, the file exists and
\* the sha supplied is the sha of the file's current content
CanUpdateFile(repo, path, sha, apiOk) ==
    apiOk /\ repo.exists /\ path \in DOMAIN repo.files /\ repo.files[path] = sha

\* The except branch an update_file failure is caught by: a missing file is
\* UnknownObjectException (404), anything else another exception
UpdateFailureKind(repo, path, apiOk) ==
    IF apiOk /\ ~(repo.exists /\ path \in DOMAIN repo.files)
    THEN "RepositoryNotFound" ELSE "UpdateError"

-----------------------------------------------------------------------------
(* create_and_push_to_github *)

\* except Exception (lines 200-203): return None, None
PublishFailed(r) ==
    run' = [run EXCEPT ![r].pc = "deploy_check", ![r].result = Absent,
                       ![r].errorKind = "PublishError",
                       ![r].req = Consumed(run[r].req)]

\* Lines 163-169: authenticate and create the repository
CreateRepo(r) ==
    /\ run[r].pc = "create_repo"
    /\ LET t == run[r].req.task
       IN  \E apiOk \in BOOLEAN :
             IF apiOk /\ ~github[t].exists
             THEN /\ github' = [github EXCEPT ![t].exists = TRUE]
                  /\ run' = [run EXCEPT ![r].pc = "create_index"]
             ELSE /\ PublishFailed(r)
                  /\ UNCHANGED github
    /\ UNCHANGED env

\* The file, content and next step of each of the three commits of lines 174-176
PrimaryFile(r) ==
    CASE run[r].pc = "create_index" ->
           [path |-> "index.html", content |-> run[r].html, next |-> "create_license"]
      [] run[r].pc = "create_license" ->
           [path |-> "LICENSE", content |-> MIT_LICENSE, next |-> "create_readme"]
      [] run[r].pc = "create_readme" ->
           [path |-> "README.md", content |-> InitialReadme, next |-> "attachments"]

\* Lines 174-176: one repo.create_file
CreatePrimaryFile(r) ==
    /\ run[r].pc \in {"create_index", "create_license", "create_readme"}
    /\ LET t == run[r].req.task
           f == PrimaryFile(r)
       IN  \E apiOk \in BOOLEAN :
             IF CanCreateFile(github[t], f.path, apiOk)
             THEN /\ github' = [github EXCEPT ![t] = Commit(github[t], f.path, f.content, r)]
                  /\ run' = [run EXCEPT
                               ![r].pc = f.next,
                               ![r].attIdx = 1,
                               ![r].commitInfo =
                                   IF f.path = "README.md"
                                   THEN CommitSha(github'[t]) ELSE run[r].commitInfo]
             ELSE /\ PublishFailed(r)
                  /\ UNCHANGED github
    /\ UNCHANGED env

\* A loop in which a failing attachment ends the publish operation
ProcessAttachment_Abort(r) ==
    /\ run[r].pc = "attachments"
    /\ LET t    == run[r].req.task
           atts == run[r].req.attachments
           i    == run[r].attIdx
       IN  IF i > Len(atts)
           THEN /\ run' = [run EXCEPT ![r].pc = "enable_pages"]
                /\ UNCHANGED github
           ELSE IF atts[i].name = None \/ atts[i].url # "data:ok"
           THEN /\ PublishFailed(r)
                /\ UNCHANGED github
           ELSE \E apiOk \in BOOLEAN :
                  IF CanCreateFile(github[t], atts[i].name, apiOk)
                  THEN /\ github' = [github EXCEPT
                                       ![t] = Commit(github[t], atts[i].name,
                                                     <<"bytes", atts[i].name>>, r)]
                       /\ run' = [run EXCEPT ![r].attIdx = i + 1]
                  ELSE /\ PublishFailed(r)
                       /\ UNCHANGED github
    /\ UNCHANGED env

\* Lines 179-192: one iteration of the attachment loop, or its end.
\* dropped records the positions of the attachments that were not committed.
ProcessAttachment(r) ==
    /\ run[r].pc = "attachments"
    /\ LET t    == run[r].req.task
           atts == run[r].req.attachments
           i    == run[r].attIdx
           skip == [run EXCEPT ![r].attIdx = i + 1,
                               ![r].dropped = run[r].dropped \cup {i}]
       IN  IF i > Len(atts)
           THEN /\ run' = [run EXCEPT ![r].pc = "enable_pages"]
                /\ UNCHANGED github
           ELSE IF atts[i].name = None \/ atts[i].url = None
           THEN \* continue
                /\ run' = skip
                /\ UNCHANGED github
           ELSE IF atts[i].url # "data:ok"
           THEN \* split or b64decode raised: caught at line 191
                /\ run' = skip
                /\ UNCHANGED github
           ELSE \E apiOk \in BOOLEAN :
                  IF CanCreateFile(github[t], atts[i].name, apiOk)
                  THEN /\ github' = [github EXCEPT
                                       ![t] = Commit(github[t], atts[i].name,
                                                     <<"bytes", atts[i].name>>, r)]
                       /\ run' = [run EXCEPT ![r].attIdx = i + 1]
                  ELSE \* create_file raised: caught at line 191
                       /\ run' = skip
                       /\ UNCHANGED github
    /\ UNCHANGED env

\* enable_github_pages: what the POST yields; only 201 returns True
PagesReplies == {"201", "204", "http_error", "transport_error"}

enable_github_pages(reply) == reply = "201"

\* A publish operation that fails when hosting could not be enabled
EnablePages_FailOnError(r) ==
    /\ run[r].pc = "enable_pages"
    /\ LET t == run[r].req.task
       IN  \E reply \in PagesReplies :
             IF enable_github_pages(reply)
             THEN /\ github' = [github EXCEPT ![t].pages = TRUE]
                  /\ run' = [run EXCEPT
                               ![r].pc = "deploy_check",
                               ![r].hosting = "True",
                               ![r].result = [url |-> HtmlUrl(t), sha |-> run[r].commitInfo],
                               ![r].attTotal = Len(run[r].req.attachments),
                               ![r].attDropped = Cardinality(run[r].dropped),
                               ![r].dropped = {}, ![r].attIdx = 0,
                               ![r].req = Consumed(run[r].req)]
             ELSE /\ run' = [run EXCEPT
                               ![r].pc = "deploy_check", ![r].result = Absent,
                               ![r].errorKind = "PublishError",
                               ![r].hosting = "False",
                               ![r].req = Consumed(run[r].req)]
                  /\ UNCHANGED github
    /\ UNCHANGED env

\* Lines 194-198: enable hosting, return the address and the readme commit.
\* hosting records what enable_github_pages returned.
EnablePages(r) ==
    /\ run[r].pc = "enable_pages"
    /\ LET t == run[r].req.task
       IN  \E reply \in PagesReplies :
             /\ github' = [github EXCEPT
                             ![t].pages = github[t].pages \/ enable_github_pages(reply)]
             /\ run' = [run EXCEPT
                          ![r].pc = "deploy_check",
                          ![r].hosting = IF enable_github_pages(reply)
                                         THEN "True" ELSE "False",
                          ![r].result = [url |-> HtmlUrl(t), sha |-> run[r].commitInfo],
                          ![r].attTotal = Len(run[r].req.attachments),
                          ![r].attDropped = Cardinality(run[r].dropped),
                          ![r].dropped = {}, ![r].attIdx = 0,
                          ![r].req = Consumed(run[r].req)]
    /\ UNCHANGED env

-----------------------------------------------------------------------------
(* fetch_and_update_repo *)

\* The except branches of lines 331-336: both return None, None
UpdateFailed(r, kind) ==
    run' = [run EXCEPT ![r].pc = "deploy_check", ![r].result = Absent,
                       ![r].errorKind = kind,
                       ![r].req = Consumed(run[r].req)]

\* A lookup that does not notice a missing repository
GetRepo_IgnoreMissing(r) ==
    /\ run[r].pc = "get_repo"
    /\ run' = [run EXCEPT ![r].pc = "revise",
                          ![r].repoSeen = IF github[run[r].req.task].exists
                                          THEN "found" ELSE "missing",
                          ![r].repoAnswered = TRUE]
    /\ UNCHANGED <<env, github>>

\* Lines 285-287: user.get_repo(repo_name).  repoSeen records whether the
\* repository existed at the call, repoAnswered whether the platform answered.
GetRepo(r) ==
    /\ run[r].pc = "get_repo"
    /\ LET t == run[r].req.task
           seen == IF github[t].exists THEN "found" ELSE "missing"
       IN  \E apiOk \in BOOLEAN :
             IF ~apiOk
             THEN run' = [run EXCEPT ![r].pc = "deploy_check", ![r].result = Absent,
                                     ![r].errorKind = "UpdateError",
                                     ![r].repoSeen = seen,
                                     ![r].req = Consumed(run[r].req)]
             ELSE IF ~github[t].exists
             THEN run' = [run EXCEPT ![r].pc = "deploy_check", ![r].result = Absent,
                                     ![r].errorKind = "RepositoryNotFound",
                                     ![r].repoSeen = seen, ![r].repoAnswered = TRUE,
                                     ![r].req = Consumed(run[r].req)]
             ELSE run' = [run EXCEPT ![r].pc = "get_index", ![r].repoSeen = seen,
                                     ![r].repoAnswered = TRUE]
    /\ UNCHANGED <<env, github>>

\* Lines 290-291: repo.get_contents("index.html").  fetchedAt records how
\* many commits the repository had at the fetch.
GetIndex(r) ==
    /\ run[r].pc = "get_index"
    /\ LET t == run[r].req.task
       IN  \E apiOk \in BOOLEAN :
             IF ~apiOk THEN UpdateFailed(r, "UpdateError")
             ELSE IF "index.html" \notin DOMAIN github[t].files
             THEN UpdateFailed(r, "RepositoryNotFound")
             ELSE run' = [run EXCEPT ![r].pc = "revise",
                                     ![r].indexSha = github[t].files["index.html"],
                                     ![r].fetchedAt = Len(github[t].commits)]
    /\ UNCHANGED <<env, github>>

\* Lines 293-312: generate the revision and inject the nonce
Revise(r) ==
    /\ run[r].pc = "revise"
    /\ \E hasToken \in TokenSettings, reply \in LLMReplies :
         LET new_html_code == generate_code_with_llm(hasToken, reply)
         IN  IF GenerationFailed(new_html_code)
             THEN run' = [run EXCEPT ![r].pc = "deploy_check", ![r].result = Absent,
                                     ![r].errorKind = "UpdateError",
                                     ![r].genCalled = TRUE,
                                     ![r].delivered = Delivered(hasToken, reply),
                                     ![r].html = new_html_code,
                                     ![r].req = Consumed(run[r].req)]
             ELSE run' = [run EXCEPT ![r].pc = "get_readme",
                                     ![r].genCalled = TRUE,
                                     ![r].delivered = Delivered(hasToken, reply),
                                     ![r].req = Consumed(run[r].req),
                                     ![r].html = InjectNonce(new_html_code,
                                                             run[r].req.nonce)]
    /\ UNCHANGED <<env, github>>

\* Line 315: repo.get_contents("README.md")
GetReadme(r) ==
    /\ run[r].pc = "get_readme"
    /\ LET t == run[r].req.task
       IN  \E apiOk \in BOOLEAN :
             IF ~apiOk THEN UpdateFailed(r, "UpdateError")
             ELSE IF "README.md" \notin DOMAIN github[t].files
             THEN UpdateFailed(r, "RepositoryNotFound")
             ELSE run' = [run EXCEPT ![r].pc = "update_readme",
                                     ![r].readmeSha = github[t].files["README.md"]]
    /\ UNCHANGED <<env, github>>

\* Line 316: the readme of a revision round
RevisedReadme(round) == <<"README", "round", ToString(round)>>

\* Lines 317-320: repo.update_file("README.md", ...)
UpdateReadme(r) ==
    /\ run[r].pc = "update_readme"
    /\ LET t == run[r].req.task
       IN  \E apiOk \in BOOLEAN :
             IF CanUpdateFile(github[t], "README.md", run[r].readmeSha, apiOk)
             THEN /\ github' = [github EXCEPT
                                  ![t] = Commit(github[t], "README.md",
                                                RevisedReadme(run[r].req.round), r)]
                  /\ run' = [run EXCEPT ![r].pc = "update_index"]
             ELSE /\ UpdateFailed(r, UpdateFailureKind(github[t], "README.md", apiOk))
                  /\ UNCHANGED github
    /\ UNCHANGED env

\* An update that reports the readme commit when the document commit failed
UpdateIndex_ReportsReadmeCommit(r) ==
    /\ run[r].pc = "update_index"
    /\ LET t == run[r].req.task
       IN  \E apiOk \in BOOLEAN :
             IF CanUpdateFile(github[t], "index.html", run[r].indexSha, apiOk)
             THEN /\ github' = [github EXCEPT
                                  ![t] = Commit(github[t], "index.html", run[r].html, r)]
                  /\ run' = [run EXCEPT
                               ![r].pc = "deploy_check",
                               ![r].result = [url |-> HtmlUrl(t),
                                              sha |-> CommitSha(github'[t])]]
             ELSE /\ run' = [run EXCEPT
                               ![r].pc = "deploy_check",
                               ![r].result = [url |-> HtmlUrl(t),
                                              sha |-> CommitSha(github[t])]]
                  /\ UNCHANGED github
    /\ UNCHANGED env

\* Lines 323-329: repo.update_file("index.html", ...) and the return
UpdateIndex(r) ==
    /\ run[r].pc = "update_index"
    /\ LET t == run[r].req.task
       IN  \E apiOk \in BOOLEAN :
             IF CanUpdateFile(github[t], "index.html", run[r].indexSha, apiOk)
             THEN /\ github' = [github EXCEPT
                                  ![t] = Commit(github[t], "index.html", run[r].html, r)]
                  /\ run' = [run EXCEPT
                               ![r].pc = "deploy_check",
                               ![r].result = [url |-> HtmlUrl(t),
                                              sha |-> CommitSha(github'[t])]]
             ELSE /\ UpdateFailed(r, UpdateFailureKind(github[t], "index.html", apiOk))
                  /\ UNCHANGED github
    /\ UNCHANGED env

-----------------------------------------------------------------------------
(* process_and_deploy_task: the common part *)

\* Lines 366-368: not repo_url or not commit_sha
DeployCheck(r) ==
    /\ run[r].pc = "deploy_check"
    /\ IF run[r].result.url = None \/ run[r].result.sha = NoSha
       THEN run' = [run EXCEPT ![r].pc = "aborted"]
       ELSE run' = [run EXCEPT ![r].pc = "poll_start"]
    /\ UNCHANGED <<env, github>>

-----------------------------------------------------------------------------
(* poll_for_deployment *)

\* int(str): the value, or ValueError
ParseInt(str) ==
    CASE str = "15" -> [raised |-> FALSE, value |-> 15]
      [] str = "0"  -> [raised |-> FALSE, value |-> 0]
      [] str = "-5" -> [raised |-> FALSE, value |-> -5]
      [] OTHER      -> [raised |-> TRUE, value |-> 0]

\* Lines 213-217: int(os.getenv("POLLING_TIME", "15")), 15 on ValueError
PollingInterval(value) ==
    LET parsed == ParseInt(IF value = None THEN "15" ELSE value)
    IN  IF parsed.raised THEN DEFAULT_POLLING ELSE parsed.value

\* What one requests.get(pages_url, timeout=10) yields
ProbeKinds == {"connection_error", "timeout", "status_404", "status_200"}

NoMarkerPage == <<"<body>">>

\* The bodies the pages site of a task can answer with: a version of the
\* document that was committed, or a page without any marker
ProbeBodies(t) == github[t].served \cup {NoMarkerPage}

\* How long a probe can take: at once, or the probe's whole timeout
ProbeDurations == {0, ProbeTimeout}

\* A check for a marker tag of any nonce
ProbeSucceeds_AnyNonce(kind, body, nonce_to_check) ==
    kind = "status_200" /\ \E n \in Nonces : Contains(body, NonceMetaTag(n))

\* Lines 227-229: status 200 and the marker tag in the body
ProbeSucceeds(kind, body, nonce_to_check) ==
    kind = "status_200" /\ Contains(body, NonceMetaTag(nonce_to_check))

\* Lines 209-221
PollStart(r) ==
    /\ run[r].pc = "poll_start"
    /\ \E value \in PollingTimes :
         run' = [run EXCEPT ![r].pc = "poll_check",
                            ![r].interval = PollingInterval(value),
                            ![r].elapsed = 0]
    /\ UNCHANGED <<env, github>>

\* Line 222: time.time() - start_time < timeout
PollContinues(elapsed, timeout) == elapsed < timeout

\* The return of poll_for_deployment: its locals are gone
PollReturn(r, value) ==
    run' = [run EXCEPT ![r].pc = "verify_check", ![r].polled = TRUE,
                       ![r].is_live = value, ![r].elapsed = 0, ![r].interval = 0]

\* Line 222, and lines 243-244 when the loop ends
PollCheck(r) ==
    /\ run[r].pc = "poll_check"
    /\ IF PollContinues(run[r].elapsed, PollTimeout)
       THEN run' = [run EXCEPT ![r].pc = "poll_probe"]
       ELSE PollReturn(r, FALSE)
    /\ UNCHANGED <<env, github>>

\* Whether a probe of run r has been answered with success status and a body
\* that holds the marker tag of the run's nonce (recorded for the properties)
MarkerSeen(r, kind, body) ==
    \/ run[r].sawMarker
    \/ kind = "status_200" /\ Contains(body, NonceMetaTag(run[r].req.nonce))

\* A probe of the pages site of whichever task
PollProbe_AnySite(r) ==
    /\ run[r].pc = "poll_probe"
    /\ \E kind \in ProbeKinds, t \in Tasks, d \in ProbeDurations :
         \E body \in ProbeBodies(t) :
           IF ProbeSucceeds(kind, body, run[r].req.nonce)
           THEN run' = [run EXCEPT ![r].pc = "verify_check", ![r].polled = TRUE,
                                   ![r].is_live = TRUE, ![r].elapsed = 0,
                                   ![r].interval = 0,
                                   ![r].probed = TRUE,
                                   ![r].sawMarker = MarkerSeen(r, kind, body)]
           ELSE run' = [run EXCEPT ![r].pc = "poll_sleep", ![r].probed = TRUE,
                                   ![r].sawMarker = MarkerSeen(r, kind, body),
                                   ![r].elapsed = run[r].elapsed + d]
    /\ UNCHANGED <<env, github>>

\* Lines 224-238: one probe
PollProbe(r) ==
    /\ run[r].pc = "poll_probe"
    /\ \E kind \in ProbeKinds, body \in ProbeBodies(run[r].req.task),
          d \in ProbeDurations :
         IF ProbeSucceeds(kind, body, run[r].req.nonce)
         THEN run' = [run EXCEPT ![r].pc = "verify_check", ![r].polled = TRUE,
                                 ![r].is_live = TRUE, ![r].elapsed = 0,
                                 ![r].interval = 0,
                                 ![r].probed = TRUE,
                                 ![r].sawMarker = MarkerSeen(r, kind, body)]
         ELSE run' = [run EXCEPT ![r].pc = "poll_sleep", ![r].probed = TRUE,
                                 ![r].sawMarker = MarkerSeen(r, kind, body),
                                 ![r].elapsed = run[r].elapsed + d]
    /\ UNCHANGED <<env, github>>

\* Line 241: time.sleep(polling_interval); a negative length raises ValueError,
\* which nothing catches
PollSleep(r) ==
    /\ run[r].pc = "poll_sleep"
    /\ IF run[r].interval < 0
       THEN run' = [run EXCEPT ![r].pc = "crashed"]
       ELSE run' = [run EXCEPT ![r].pc = "poll_check",
                               ![r].elapsed = run[r].elapsed + run[r].interval]
    /\ UNCHANGED <<env, github>>

\* A verification whose result is not looked at
VerifyCheck_NoHalt(r) ==
    /\ run[r].pc = "verify_check"
    /\ run' = [run EXCEPT ![r].pc = "callback_post", ![r].attempt = 0]
    /\ UNCHANGED <<env, github>>

\* Lines 374-382: halt, or assemble the payload
VerifyCheck(r) ==
    /\ run[r].pc = "verify_check"
    /\ IF ~run[r].is_live
       THEN run' = [run EXCEPT ![r].pc = "aborted"]
       ELSE run' = [run EXCEPT
                      ![r].pc = "callback_post",
                      ![r].attempt = 0,
                      ![r].payload =
                          CallbackPayload(run[r].req.task, run[r].req.round,
                                          run[r].req.nonce, run[r].result.url,
                                          run[r].result.sha,
                                          PagesUrl(run[r].req.task))]
    /\ UNCHANGED <<env, github>>

-----------------------------------------------------------------------------
(* send_callback *)

\* What one requests.post(evaluation_url, ...) yields
CallbackReplies == {"status_200", "status_500", "transport_error"}

\* Any answer taken as an acknowledgment
Acknowledged_AnyStatus(reply) == reply # "transport_error"

\* Line 256: response.status_code == 200, and no exception
Acknowledged(reply) == reply = "status_200"

\* A backoff that starts at 2
Delay_FromTwo(attempt) == 2 ^ (attempt + 1)

\* Line 266: delay = 2 ** attempt
Delay(attempt) == 2 ^ attempt

\* Line 265: attempt < max_retries - 1
WaitsAfter(attempt) == attempt < max_retries - 1

\* Lines 254-263, and the end of the loop (lines 270-271, then line 385).
\* outcomes records, per attempt, whether it was answered with status 200.
\* The for loop goes on to the next attempt whether or not a wait precedes it.
CallbackPost(r) ==
    /\ run[r].pc = "callback_post"
    /\ \E reply \in CallbackReplies :
         LET posted == Append(run[r].outcomes, reply = "status_200")
         IN  IF Acknowledged(reply)
             THEN run' = [run EXCEPT ![r].pc = "done", ![r].outcomes = posted,
                                     ![r].notified = TRUE, ![r].acked = TRUE]
             ELSE IF WaitsAfter(run[r].attempt)
             THEN run' = [run EXCEPT ![r].pc = "callback_wait",
                                     ![r].outcomes = posted]
             ELSE IF run[r].attempt + 1 < max_retries
             THEN run' = [run EXCEPT ![r].pc = "callback_post",
                                     ![r].outcomes = posted,
                                     ![r].attempt = run[r].attempt + 1]
             ELSE run' = [run EXCEPT ![r].pc = "done", ![r].outcomes = posted,
                                     ![r].notified = TRUE, ![r].acked = FALSE]
    /\ UNCHANGED <<env, github>>

\* Lines 266-268: the backoff, then the next attempt of the for loop
CallbackWait(r) ==
    /\ run[r].pc = "callback_wait"
    /\ IF run[r].attempt + 1 < max_retries
       THEN run' = [run EXCEPT ![r].pc = "callback_post",
                               ![r].waits = Append(run[r].waits, Delay(run[r].attempt)),
                               ![r].attempt = run[r].attempt + 1]
       ELSE run' = [run EXCEPT ![r].pc = "done",
                               ![r].waits = Append(run[r].waits, Delay(run[r].attempt)),
                               ![r].notified = TRUE, ![r].acked = FALSE]
    /\ UNCHANGED <<env, github>>

-----------------------------------------------------------------------------
(* The service with one request *)

\* One step of the background run of r
RunStep(r) ==
    \/ process_and_deploy_task(r)
    \/ GenerateRound1(r)
    \/ CreateRepo(r)
    \/ CreatePrimaryFile(r)
    \/ ProcessAttachment(r)
    \/ EnablePages(r)
    \/ GetRepo(r)
    \/ GetIndex(r)
    \/ Revise(r)
    \/ GetReadme(r)
    \/ UpdateReadme(r)
    \/ UpdateIndex(r)
    \/ DeployCheck(r)
    \/ PollStart(r)
    \/ PollCheck(r)
    \/ PollProbe(r)
    \/ PollSleep(r)
    \/ VerifyCheck(r)
    \/ CallbackPost(r)
    \/ CallbackWait(r)

Step(r) ==
    \/ \E request \in SoloRequests : receive_task(r, request)
    \/ RunStep(r)

Next == \E r \in SoloRuns : Step(r)

Spec == Init /\ [][Next]_vars

\* A probe during which the clock of line 222 moves on
ClockAdvances(r) == PollProbe(r) /\ run'[r].elapsed > run[r].elapsed

\* The service when every call of a run returns: a run that can take a step
\* takes one, and time.time() does not stand still over the probes of a poll
FairSpec ==
    /\ Spec
    /\ \A r \in SoloRuns : WF_vars(RunStep(r)) /\ SF_vars(ClockAdvances(r))

-----------------------------------------------------------------------------
(* The service with two requests at a time *)

\* The task of each run when the two requests name different tasks
OwnTask == [r \in Runs |-> IF r = "r1" THEN "t1" ELSE "t2"]

\* The nonces of each run's requests: the second request may repeat the
\* nonce of the first
OwnNonces == [r \in Runs |-> IF r = "r1" THEN {"n1"} ELSE Nonces]

\* Requests with the configured secret and no attachment, for task t
PlainRequests(t, nonces) ==
    { TaskRequest("s1", t, k, n, <<>>) : k \in {1, 2}, n \in nonces }

\* The texts of the two-request scenarios: the service fails, or delivers a
\* page with a head section, or a page without one
SteadyTexts == { <<"<head>", HeadClose, "<body>">>, <<"<body>">> }

\* The two-request scenarios: POLLING_TIME is unset or not a number, a probe
\* that fails takes its whole timeout, the generator answers as above
Steady(r) ==
    /\ run[r].pc \in {"poll_check", "poll_probe", "poll_sleep"} =>
         run[r].interval = DEFAULT_POLLING
    /\ run[r].elapsed % (DEFAULT_POLLING + ProbeTimeout) \in {0, ProbeTimeout}
    /\ run[r].delivered.ok => run[r].delivered.text \in SteadyTexts

DuoInit ==
    /\ env = [MY_SECRET |-> "s1"]
    /\ github \in [Tasks -> {NoRepo,
                              ExistingRepo(("index.html" :> PublishedDoc)
                                           @@ ("README.md" :> InitialReadme))}]
    /\ run = [r \in Runs |-> NoRun]

\* Two runs for different tasks, their steps interleaved in every order
DuoNext ==
    \E r \in Runs :
      \/ \E request \in PlainRequests(OwnTask[r], OwnNonces[r]) :
           receive_task(r, request)
      \/ RunStep(r) /\ Steady(r)'

DuoSpec == DuoInit /\ [][DuoNext]_vars

\* Two runs for the same task, their steps interleaved in every order
RaceInit ==
    /\ DuoInit
    /\ \A t \in Tasks \ SoloTasks : github[t] = NoRepo

RaceNext ==
    \E r \in Runs :
      \/ \E t \in SoloTasks : \E request \in PlainRequests(t, OwnNonces[r]) :
           receive_task(r, request)
      \/ RunStep(r) /\ Steady(r)'

RaceSpec == RaceInit /\ [][RaceNext]_vars

-----------------------------------------------------------------------------
(* Properties *)

Started(r) == run[r].pc \notin {"idle", "rejected", "scheduled"}

\* C1: a round-1 run takes the create branch and never calls
\* fetch_and_update_repo; a run of round 2 or more calls fetch_and_update_repo
\* and never generates for, or calls, create_and_push_to_github; no run calls
\* both; in round 1 create_and_push_to_github is called exactly when the
\* generator returned a document.  The repository's existence plays no part.
C1_RoundDispatch ==
    \A r \in Runs :
      /\ ~(run[r].createCalled /\ run[r].updateCalled)
      /\ run[r].req.round = 1 =>
           /\ ~run[r].updateCalled
           /\ Started(r) => run[r].pc = "generate" \/ run[r].genCalled
           /\ run[r].genCalled =>
                (run[r].createCalled <=> ~GenerationFailed(run[r].html))
      /\ run[r].req.round >= 2 =>
           /\ ~run[r].createCalled
           /\ run[r].pc # "generate"
           /\ Started(r) => run[r].updateCalled

\* A round-1 run that called create_and_push_to_github although the
\* repository existed before the run (the creation collided)
C1_Witness ==
    \E r \in Runs :
      /\ run[r].req.round = 1 /\ run[r].createCalled
      /\ run[r].errorKind = "PublishError"
      /\ github[run[r].req.task].exists
      /\ github[run[r].req.task].commits = <<>>

\* C2: a callback is attempted only in a run whose publish or update step
\* returned an address and a revision and whose poll returned true after a
\* probe saw the run's marker; a run whose step returned (None, None) or
\* whose poll returned false goes no further than its halt and has attempted
\* no callback.
C2_CallbackOnlyAfterVerifiedDeploy ==
    \A r \in Runs :
      /\ (run[r].outcomes # <<>> \/ run[r].pc \in {"callback_post", "callback_wait", "done"})
           => /\ run[r].result.url # None /\ run[r].result.sha # NoSha
              /\ run[r].polled /\ run[r].is_live /\ run[r].sawMarker
      /\ run[r].errorKind # None
           => /\ run[r].result = Absent
              /\ run[r].pc \in {"deploy_check", "aborted"}
              /\ run[r].outcomes = <<>>
      /\ (run[r].polled /\ ~run[r].is_live)
           => /\ run[r].pc \in {"verify_check", "aborted"}
              /\ run[r].outcomes = <<>>

\* A run that has attempted a callback
C2_Witness == \E r \in Runs : run[r].outcomes # <<>> /\ run[r].polled

\* C3: poll_for_deployment has returned true exactly when a probe was
\* answered with success status and a body holding the marker tag of the
\* requested nonce; it returns in the step of that probe, without a sleep;
\* when it returns and no probe saw the marker, it returns false.
C3_PollTrueOnlyOnExactMarker ==
    \A r \in Runs :
      /\ run[r].sawMarker <=> (run[r].polled /\ run[r].is_live)
      /\ run[r].sawMarker => run[r].pc \notin {"poll_check", "poll_probe", "poll_sleep"}

\* A poll that returned true
C3_Witness == \E r \in Runs : run[r].polled /\ run[r].is_live /\ run[r].probed

\* The document of task t as committed, and the run that committed it
DocumentCommits(t) ==
    {i \in 1..Len(github[t].commits) : github[t].commits[i].path = "index.html"}

\* C4: every document committed as index.html holds the marker tag of the
\* committing run's nonce exactly once, directly before the head close tag.
C4_MarkerOnceBeforeHeadClose ==
    \A t \in Tasks : \A i \in DocumentCommits(t) :
      LET r   == github[t].commits[i].by
          doc == run[r].html
          tag == NonceMetaTag(run[r].req.nonce)
          k   == Find(doc, tag)
      IN  run[r].req.round >= 1 =>
            /\ Count(doc, tag) = 1
            /\ k + 2 <= Len(doc)
            /\ doc[k + 1] = NL
            /\ doc[k + 2] = HeadClose

\* The document that run r fetched: a file's sha stands for its content
FetchedDocument(r) == run[r].indexSha

\* C5: in a round of 2 or more whose nonce is new to the fetched document,
\* the document committed by fetch_and_update_repo, when the revised markup
\* has a head close tag, holds the new nonce's marker exactly once and no
\* marker of another nonce.
C5_PriorMarkerReplaced ==
    \A t \in Tasks : \A i \in DocumentCommits(t) :
      LET r   == github[t].commits[i].by
          doc == run[r].html
          tag == NonceMetaTag(run[r].req.nonce)
      IN  (/\ run[r].updateCalled /\ run[r].req.round >= 2
           /\ ~Contains(FetchedDocument(r), tag)
           /\ Contains(doc, HeadClose)) =>
            /\ Count(doc, tag) = 1
            /\ \A n \in Nonces \ {run[r].req.nonce} : ~Contains(doc, NonceMetaTag(n))

\* C6: send_callback posts at most 5 times; an attempt answered with status
\* 200 is the last one and makes it return true; it returns false only
\* after 5 attempts none of which was answered with status 200.
C6_AtMostFiveAttempts ==
    \A r \in Runs :
      LET o == run[r].outcomes
      IN  /\ Len(o) <= 5
          /\ \A i \in 1..Len(o) : o[i] => i = Len(o) /\ run[r].notified /\ run[r].acked
          /\ run[r].notified => (run[r].acked <=> (o # <<>> /\ o[Len(o)]))
          /\ (run[r].notified /\ ~run[r].acked) => Len(o) = 5
          /\ (Len(o) = 5 /\ ~o[5]) => run[r].notified
          /\ run[r].notified => run[r].pc = "done"

\* send_callback returned false after 5 attempts
C6_Witness ==
    \E r \in Runs : run[r].notified /\ ~run[r].acked /\ Len(run[r].outcomes) = 5

\* C7: the waits of send_callback are 1, 2, 4, 8 in this order, one after
\* each failed attempt but the fifth; a run acknowledged on its third attempt
\* has waited 1 + 2.
C7_ExponentialBackoff ==
    \A r \in Runs :
      LET w == run[r].waits
          o == run[r].outcomes
      IN  /\ Len(w) <= 4
          /\ \A k \in 1..Len(w) : w[k] = <<1, 2, 4, 8>>[k]
          /\ run[r].pc = "callback_post" => Len(w) = Len(o)
          /\ run[r].pc = "callback_wait" => Len(w) = Len(o) - 1
          /\ (run[r].notified /\ run[r].acked) => Len(w) = Len(o) - 1
          /\ (run[r].notified /\ ~run[r].acked) => Len(w) = 4
          /\ (run[r].notified /\ run[r].acked /\ Len(o) = 3) => w[1] + w[2] = 3

\* Two failures, then the acknowledgment
C7_Witness ==
    \E r \in Runs :
      /\ run[r].notified /\ run[r].acked
      /\ run[r].outcomes = <<FALSE, FALSE, TRUE>>
      /\ run[r].waits = <<1, 2>>

\* C8: no probe starts once the elapsed time has reached the timeout, and no
\* failed probe is fatal: the poll ends by returning true or false.
C8_PollEndsWithBoolean ==
    \A r \in Runs :
      /\ run[r].pc = "poll_probe" => run[r].elapsed < PollTimeout
      /\ run[r].pc # "crashed"

\* The commits of run r to its repository, in order
RunCommits(r) ==
    LET ByRun(c) == c.by = r
    IN  IF run[r].req.task \in Tasks
        THEN SelectSeq(github[run[r].req.task].commits, ByRun)
        ELSE <<>>

\* The names of the first n attachments of atts that were not dropped
RECURSIVE KeptNames(_, _, _)
KeptNames(atts, n, dropped) ==
    IF n = 0 THEN <<>>
    ELSE IF n \in dropped THEN KeptNames(atts, n - 1, dropped)
    ELSE Append(KeptNames(atts, n - 1, dropped), atts[n].name)

\* The paths of the commits that follow the three fixed files
AttachmentCommits(r) ==
    LET c == RunCommits(r)
    IN  [k \in 1..(Len(c) - 3) |-> c[k + 3].path]

\* C9: once the three fixed files are committed, no attachment ends the
\* publish operation: the attachments that did not fail are committed, one
\* commit each, in list order, and the result is the repository's address
\* and the readme commit's revision, however many attachments failed.
C9_AttachmentFailureIsolated ==
    \A r \in Runs :
      (run[r].createCalled /\ run[r].commitInfo # NoSha) =>
        /\ run[r].errorKind = None
        /\ run[r].pc = "aborted" => run[r].polled
        /\ run[r].pc \in {"attachments", "enable_pages"} =>
             LET n == IF run[r].pc = "attachments"
                      THEN run[r].attIdx - 1
                      ELSE Len(run[r].req.attachments)
             IN  AttachmentCommits(r) = KeptNames(run[r].req.attachments, n, run[r].dropped)
        /\ run[r].pc \notin {"attachments", "enable_pages"} =>
             /\ run[r].result = [url |-> HtmlUrl(run[r].req.task), sha |-> run[r].commitInfo]
             /\ Len(AttachmentCommits(r)) = run[r].attTotal - run[r].attDropped

\* A publish of two attachments, one failed and one committed, that succeeded
C9_Witness ==
    \E r \in Runs :
      /\ run[r].createCalled /\ run[r].attTotal = 2 /\ run[r].attDropped = 1
      /\ Len(AttachmentCommits(r)) = 1
      /\ run[r].result.url # None /\ run[r].result.sha # NoSha

\* C10: a run whose fetch_and_update_repo found no repository of the task's
\* name gets (None, None), has not called the generator, has committed
\* nothing and attempts no callback; when the platform answered the lookup,
\* the failure is reported as RepositoryNotFound.
C10_MissingRepoNoCommit ==
    \A r \in Runs :
      run[r].repoSeen = "missing" =>
        /\ run[r].result = Absent
        /\ run[r].pc \in {"deploy_check", "aborted"}
        /\ run[r].errorKind = IF run[r].repoAnswered THEN "RepositoryNotFound"
                              ELSE "UpdateError"
        /\ ~run[r].genCalled
        /\ \A t \in Tasks : \A i \in 1..Len(github[t].commits) : github[t].commits[i].by # r
        /\ run[r].outcomes = <<>>

\* A halted update run whose repository did not exist
C10_Witness ==
    \E r \in Runs :
      /\ run[r].repoSeen = "missing" /\ run[r].repoAnswered
      /\ run[r].pc = "aborted"

\* C11: once create_and_push_to_github has called enable_github_pages, its
\* result is the repository's address and the revision of the readme commit
\* (the run's third commit), with no error, whether enable_github_pages
\* returned True or False; the run goes on to the poll.
C11_HostingFailureNotFatal ==
    \A r \in Runs :
      run[r].hosting # None =>
        /\ run[r].errorKind = None
        /\ run[r].result.url = HtmlUrl(run[r].req.task)
        /\ run[r].result.sha # NoSha
        /\ run[r].result.sha <= Len(github[run[r].req.task].commits)
        /\ github[run[r].req.task].commits[run[r].result.sha] =
             [path |-> "README.md", by |-> r]
        /\ run[r].pc = "aborted" => run[r].polled

\* A publish whose hosting-enable call failed, and whose run was notified
C11_Witness ==
    \E r \in Runs :
      /\ run[r].hosting = "False" /\ ~github[run[r].req.task].pages
      /\ run[r].result.url # None
      /\ run[r].pc = "done"

\* The paths of the commits of run r, in order
CommitPaths(r) ==
    LET c == RunCommits(r)
    IN  [k \in 1..Len(c) |-> c[k].path]

C13_ScheduledIffSecretMatches ==
    \A r \in Runs :
      /\ run[r].pc = "idle" <=> run[r].response = NoResponse
      /\ run[r].pc # "idle" =>
           /\ run[r].req.secret # env.MY_SECRET <=> run[r].pc = "rejected"
           /\ run[r].pc = "rejected" <=> run[r].response = Forbidden
           /\ run[r].pc # "rejected" <=> run[r].response = Accepted
      /\ run[r].pc = "rejected" =>
           /\ run[r] = [NoRun EXCEPT !.pc = "rejected", !.req = run[r].req,
                                     !.response = Forbidden]
           /\ RunCommits(r) = <<>>
      /\ run[r].pc = "scheduled" =>
           run[r] = [NoRun EXCEPT !.pc = "scheduled", !.req = run[r].req,
                                  !.response = Accepted]

\* An accepted request whose run failed to deploy
C13_Witness ==
    \E r \in Runs :
      /\ run[r].response = Accepted /\ run[r].req.secret = env.MY_SECRET
      /\ run[r].pc = "aborted" /\ run[r].errorKind # None

\* Done, or Aborted
Ended(r) == run[r].pc \in {"done", "aborted"}

\* C14: every scheduled run reaches Done (send_callback returned, true or
\* false) or Aborted (one of the returns of lines 351, 368 and 376), whatever
\* the calls yield, and takes no step after that.
C14_RunEndsDoneOrAborted ==
    /\ \A r \in Runs : (run[r].pc = "scheduled") ~> Ended(r)
    /\ [][\A r \in Runs : Ended(r) => run'[r] = run[r]]_vars

\* The payload of the callback of a run of request req that runs alone: the
\* readme commit is the third commit of a publish, the document commit the
\* second commit of an update
AlonePayload(req) ==
    CallbackPayload(req.task, req.round, req.nonce, HtmlUrl(req.task),
                    IF req.round = 1 THEN 3 ELSE 2, PagesUrl(req.task))

\* What a run has done lies in its own task's repository and site
OwnFootprint(r) ==
    /\ \A t \in Tasks : \A i \in 1..Len(github[t].commits) :
         github[t].commits[i].by = r => t = run[r].req.task
    /\ run[r].sawMarker =>
         \E doc \in github[run[r].req.task].served :
           Contains(doc, NonceMetaTag(run[r].req.nonce))
    /\ run[r].pc \in {"callback_post", "callback_wait", "done"} =>
         /\ run[r].payload = AlonePayload(run[r].req)
         /\ github[run[r].req.task].commits[run[r].payload.commit_sha].by = r

\* A step of run r changes no other run and no other task's repository
OwnStep(r) ==
    run'[r] # run[r] =>
      /\ \A q \in Runs \ {r} : run'[q] = run[q]
      /\ \A t \in Tasks \ {run'[r].req.task} : github'[t] = github[t]

\* C15: of two runs for different tasks, whose steps interleave in every
\* order, each commits only in the repository of its own task, sees its
\* marker only on its own site, changes nothing of the other run or the
\* other repository, and sends the payload it sends when it runs alone.
C15_DifferentTasksDoNotInterfere ==
    /\ [](\A r \in Runs : OwnFootprint(r))
    /\ [][\A r \in Runs : OwnStep(r)]_vars

\* Two runs, one publishing and one updating, that were both notified
C15_Witness ==
    /\ run["r1"].pc = "done" /\ run["r2"].pc = "done"
    /\ run["r1"].req.round # run["r2"].req.round
    /\ run["r1"].payload.repo_url = HtmlUrl("t1")
    /\ run["r2"].payload.repo_url = HtmlUrl("t2")

\* C16: a run whose generator returned empty markup or markup that starts
\* with the error prefix is halted with nothing changed on the platform: the
\* task's repository is as it was (not created in round 1, no commit in
\* another round), nothing was probed, no callback was attempted.
C16_FailedGenerationChangesNothing ==
    \A r \in Runs :
      (run[r].genCalled /\ (run[r].html = <<>> \/ StartsWith(run[r].html, ErrorPrefix))) =>
        /\ run[r].pc \in {"deploy_check", "aborted"}
        /\ run[r].result = Absent
        /\ ~run[r].createCalled
        /\ github[run[r].req.task] \in InitialRepos
        /\ RunCommits(r) = <<>>
        /\ ~run[r].probed /\ ~run[r].polled
        /\ run[r].outcomes = <<>>
        /\ run[r].req.round # 1 => run[r].errorKind = "UpdateError"

\* A halted revision run whose generator returned the sentinel
C16_Witness ==
    \E r \in Runs :
      /\ run[r].genCalled /\ StartsWith(run[r].html, ErrorPrefix)
      /\ run[r].req.round = 2 /\ run[r].pc = "aborted"
      /\ github[run[r].req.task].exists

\* C17: a failed fetch_and_update_repo reports RepositoryNotFound exactly
\* when the platform answered that the task's repository does not exist; a
\* failure with the repository present (a missing file, a failed fetch, a
\* failed generation, a failed or conflicting commit) is an UpdateError.
C17_NotFoundOnlyForMissingRepository ==
    \A r \in Runs :
      (run[r].updateCalled /\ run[r].req.round >= 2 /\ run[r].errorKind # None) =>
        /\ run[r].errorKind \in {"RepositoryNotFound", "UpdateError"}
        /\ run[r].errorKind = "RepositoryNotFound" <=>
             (run[r].repoAnswered /\ run[r].repoSeen = "missing")

\* C18: whatever POLLING_TIME holds, the interval of a poll is positive (the
\* default of 15 stands in for a text that is not a number, for zero and for
\* a negative number), so each failed probe is followed by a sleep of
\* positive length, and the sleep does not fail.
C18_PollIntervalPositive ==
    \A r \in Runs :
      /\ run[r].pc \in {"poll_check", "poll_probe", "poll_sleep"} =>
           run[r].interval > 0
      /\ run[r].pc # "crashed"

\* The tokens of a text that are markup: not white space, not the fenced-code
\* delimiter, not the language name that follows an opening delimiter
IsMarkup(tok) == ~IsSpace(tok) /\ tok \notin {Fence, "html"}

\* C19: of a text that the service delivered, generate_code_with_llm keeps
\* every markup token, keeps no delimiter at the start or the end, and does
\* not return the sentinel: the document of the run (the cleaned text, with
\* the marker injected when it was not empty) holds all the text's markup.
C19_FenceCleanupKeepsMarkup ==
    \A r \in Runs :
      (run[r].genCalled /\ run[r].delivered.ok) =>
        LET text == run[r].delivered.text
        IN  /\ run[r].html # GenerationErrorArtifact
            /\ \A i \in 1..Len(text) :
                 IsMarkup(text[i]) => Contains(run[r].html, text[i])
            /\ ~StartsWith(run[r].html, Fence)
            /\ ~EndsWith(run[r].html, Fence)

\* fetch_and_update_repo of run r returned an address and a revision
UpdateSucceeded(r) == run[r].updateCalled /\ run[r].result.url # None

\* The document commits that other runs made after run r fetched index.html
\* and before r's own document commit
DocumentCommitsBetween(r) ==
    {i \in DocumentCommits(run[r].req.task) :
       /\ run[r].fetchedAt < i /\ i < run[r].result.sha
       /\ github[run[r].req.task].commits[i].by # r}

\* The document that the commit at position p of task t's log replaced: what
\* the last document commit before it wrote, or the document at the start
DocumentBefore(t, p) ==
    LET earlier == {i \in DocumentCommits(t) : i < p}
    IN  IF earlier = {} THEN PublishedDoc
        ELSE LET last == CHOOSE i \in earlier : \A j \in earlier : j <= i
             IN  run[github[t].commits[last].by].html

\* A run reports success only if no commit of another run changed the
\* document between its fetch and its own document commit
NoChangeSinceFetch(r) ==
    UpdateSucceeded(r) =>
      \A i \in DocumentCommitsBetween(r) :
        run[github[run[r].req.task].commits[i].by].html = FetchedDocument(r)

\* A successful run replaced the document that it had fetched
ReplacedWhatItRead(r) ==
    UpdateSucceeded(r) =>
      DocumentBefore(run[r].req.task, run[r].result.sha) = FetchedDocument(r)

\* Two update runs for the same task that fetched the same document
SameFetch(r, q) ==
    /\ r # q /\ run[r].req.task = run[q].req.task
    /\ run[r].updateCalled /\ run[q].updateCalled
    /\ run[r].req.round >= 2 /\ run[q].req.round >= 2
    /\ FetchedDocument(r) # <<>> /\ FetchedDocument(r) = FetchedDocument(q)

\* C20: of two runs of round 2 or more for the same task, a run reports
\* success only if no other commit changed the document between its fetch
\* and its document commit; of two runs that fetched the same document at
\* most one reports success; a successful run replaced the document it read.
C20_AtMostOneOfSameFetchSucceeds ==
    /\ \A r \in Runs : NoChangeSinceFetch(r) /\ ReplacedWhatItRead(r)
    /\ \A r, q \in Runs :
         SameFetch(r, q) => ~(UpdateSucceeded(r) /\ UpdateSucceeded(q))

\* C20, amended: the same, but two runs that fetched the same document both
\* report success when the document commit of the first wrote the very
\* document that was fetched, which leaves the file's sha as it was.
C20_OneSucceedsUnlessContentUnchanged ==
    /\ \A r \in Runs : NoChangeSinceFetch(r) /\ ReplacedWhatItRead(r)
    /\ \A r, q \in Runs :
         (/\ SameFetch(r, q) /\ UpdateSucceeded(r) /\ UpdateSucceeded(q)
          /\ run[r].result.sha < run[q].result.sha)
           => run[r].html = FetchedDocument(q)

\* Two update runs fetched the same document; one committed its revision,
\* the commit of the other was refused
C20_Witness ==
    \E r, q \in Runs :
      /\ SameFetch(r, q)
      /\ run[r].fetchedAt = run[q].fetchedAt
      /\ UpdateSucceeded(r) /\ run[r].html # FetchedDocument(r)
      /\ run[q].errorKind = "UpdateError" /\ run[q].genCalled
      /\ ~GenerationFailed(run[q].html)
      /\ CommitPaths(q) = <<>> \/ CommitPaths(q) = <<"README.md">>

====
